---- MODULE Spec2Model ----
(***************************************************************************)
(* Model of the stock screener front end (frontend/src/App.tsx and         *)
(* frontend/src/api/stock.ts): the App component's workflow state, its     *)
(* three handlers (handleScreen, handleFilter, handleReset), the error     *)
(* banner's close button, the buttons' disabled / visibility conditions,   *)
(* and the requests to /screen and /filter that are in flight.             *)
(*                                                                         *)
(* A JavaScript value that may be null or undefined is modelled as a       *)
(* sequence of length at most one: None is null / undefined, Some(v) is v. *)
(***************************************************************************)
EXTENDS Integers, Sequences, FiniteSets, TLC

VARIABLES
    state,            \* useState<AppState>('idle')
    screenedStocks,   \* useState<ScreenedStock[]>([])
    filteredStocks,   \* useState<FilteredStock[]>([])
    analysisResults,  \* useState<AnalysisResult[]>([])
    aiSelectedStocks, \* useState<AISelectedStock[]>([])
    marketEnv,        \* useState<MarketEnvironment | null>(null)
    error,            \* useState<string | null>(null)
    inflight,         \* the pending promises of screenStocks / filterStocks, in issue order
    appliedCodes,     \* history: `codes` of the handleFilter call whose success branch ran last
    lastEvent,        \* history: the event handled last, with its inputs
    snapshots,        \* history switch: whether a pending filter request records what was held at its call
    card,             \* the FilteredStock whose card is rendered (its minute_volume)
    chart             \* the volume chart rendered for `card`: None before rendering

workflow == <<state, screenedStocks, filteredStocks, analysisResults,
              aiSelectedStocks, marketEnv, error>>

\* What the workflow's handlers never touch.
aux == <<snapshots, card, chart>>

vars == <<state, screenedStocks, filteredStocks, analysisResults,
          aiSelectedStocks, marketEnv, error, inflight, appliedCodes, lastEvent,
          snapshots, card, chart>>

----------------------------------------------------------------------------
(* Bounds *)

\* Stock codes are 1..MaxCode.
MaxCode == 2

\* At most this many requests are pending at once.
MaxInflight == 2

\* A minute_volume series has at most MaxSeries samples, with prices in
\* 1..MaxPrice and volumes in 0..MaxVolume.
MaxSeries == 3
MaxPrice == 3
MaxVolume == 2

----------------------------------------------------------------------------
(* Values *)

None == <<>>
Some(v) == <<v>>

AppStates == {"idle", "screening", "screened", "filtering", "filtered"}

\* The two fallback messages of the catch blocks (Chinese sentences in the
\* source: "screening failed, please retry later" and "filtering failed,
\* please retry later").
ScreenFailedMessage == "screen failed, retry later"
FilterFailedMessage == "filter failed, retry later"

ScreenedStock(c) == [code |-> c, price |-> 10 + c]
FilteredStock(c) == [code |-> c, price |-> 10 + c, ma5 |-> 10]
AnalysisResult(c, q) == [code |-> c, qualified |-> q]
AISelectedStock(c) == [code |-> c, score |-> 60]
MarketEnvironment == [safe_to_buy |-> TRUE, market_sentiment |-> "bullish"]

Range(s) == {s[i] : i \in 1..Len(s)}

\* screenedStocks.map(s => s.code)
CodesOf(stocks) == [i \in 1..Len(stocks) |-> stocks[i].code]

\* a || b for a string a that may be undefined: '' and undefined are falsy.
OrString(a, b) == IF a = None \/ a = Some("") THEN b ELSE a[1]

\* a || b for an array or object a that may be undefined: every array and
\* every object is truthy.
OrObject(a, b) == IF a = None THEN b ELSE a[1]

----------------------------------------------------------------------------
(* What the remote service may answer *)

\* result.data of /screen: the first n codes of the universe, n = 0..MaxCode,
\* or the universe's last code alone.
ScreenResults ==
    {[i \in 1..n |-> ScreenedStock(i)] : n \in 0..MaxCode}
        \cup {<<ScreenedStock(MaxCode)>>}

\* The drop of a sequence's last element.
Front(s) == IF Len(s) = 0 THEN s ELSE SubSeq(s, 1, Len(s) - 1)

\* The body of a /filter answer to `codes`: the codes in Q qualify; with
\* `complete` there is one verdict per submitted code, without it the last
\* verdict is missing; ai_selected and market_environment may be absent.
FilterResult(codes, Q, complete, withAi, withEnv) ==
    LET verdicts == [i \in 1..Len(codes) |-> AnalysisResult(codes[i], codes[i] \in Q)]
        refined  == SelectSeq(codes, LAMBDA c : c \in Q)
    IN  [data               |-> [i \in 1..Len(refined) |-> FilteredStock(refined[i])],
         all_analysis       |-> IF complete THEN verdicts ELSE Front(verdicts),
         ai_selected        |-> IF withAi
                                THEN Some([i \in 1..Len(refined) |-> AISelectedStock(refined[i])])
                                ELSE None,
         market_environment |-> IF withEnv THEN Some(MarketEnvironment) ELSE None]

\* The answers to `codes`: no code qualifies or the first one does.
FirstOf(codes) == IF Len(codes) = 0 THEN {} ELSE {codes[1]}

FilterResults(codes) ==
    {FilterResult(codes, Q, complete, withAi, withEnv) :
        Q \in {{}, FirstOf(codes)}, complete \in BOOLEAN,
        withAi \in BOOLEAN, withEnv \in BOOLEAN}

\* err.response?.data?.detail of a rejected request: undefined (no response:
\* network error, timeout), the empty string, or a message.
Details == {None, Some(""), Some("service error")}

----------------------------------------------------------------------------
(* Requests in flight *)

\* History kept with the latest pending filter request: the candidates and
\* the deep-filter results held when handleFilter was called.
Held == <<screenedStocks, filteredStocks, analysisResults, aiSelectedStocks, marketEnv>>

\* The separator of codes.join(','): a token that is no stock code.
Comma == 0

\* The query parameter with every code but the last.
JoinCodesTruncated(codes) ==
    [k \in 1..(IF Len(codes) < 2 THEN 0 ELSE 2 * Len(codes) - 3) |->
        IF k % 2 = 1 THEN codes[(k + 1) \div 2] ELSE Comma]

\* codes.join(','): the codes in order, a comma between neighbours, the
\* empty string for no code.
JoinCodes(codes) ==
    [k \in 1..(IF Len(codes) = 0 THEN 0 ELSE 2 * Len(codes) - 1) |->
        IF k % 2 = 1 THEN codes[(k + 1) \div 2] ELSE Comma]

\* A pending request: `codes` is handleFilter's local variable, `query` the
\* `codes` parameter of GET /filter.
ScreenRequest ==
    [kind |-> "screen", codes |-> <<>>, query |-> <<>>, superseded |-> FALSE,
     before |-> <<>>]
FilterRequest(codes) ==
    [kind |-> "filter", codes |-> codes, query |-> JoinCodes(codes),
     superseded |-> FALSE, before |-> IF snapshots THEN Held ELSE <<>>]
NoRequest ==
    [kind |-> "none", codes |-> <<>>, query |-> <<>>, superseded |-> FALSE,
     before |-> <<>>]

\* A filter request is superseded once a later filter request is issued.
Supersede(reqs) ==
    [i \in 1..Len(reqs) |->
        IF reqs[i].kind = "filter"
        THEN [reqs[i] EXCEPT !.superseded = TRUE, !.before = <<>>]
        ELSE reqs[i]]

RemoveAt(s, i) == SubSeq(s, 1, i - 1) \o SubSeq(s, i + 1, Len(s))

NoResult == [data |-> <<>>, all_analysis |-> <<>>, ai_selected |-> None,
             market_environment |-> None]

Event(op, req, data, result, detail) ==
    [op |-> op, req |-> req, data |-> data, result |-> result, detail |-> detail]

UserEvent(op) == Event(op, NoRequest, <<>>, NoResult, None)

----------------------------------------------------------------------------
\* The card of a stock without minute_volume, and no chart rendered yet.
NoCard == [code |-> 0, minute_volume |-> None]

InitWorkflow ==
    /\ state = "idle"
    /\ screenedStocks = <<>>
    /\ filteredStocks = <<>>
    /\ analysisResults = <<>>
    /\ aiSelectedStocks = <<>>
    /\ marketEnv = None
    /\ error = None
    /\ inflight = <<>>
    /\ appliedCodes = <<>>
    /\ lastEvent = UserEvent("init")

Init ==
    /\ InitWorkflow
    /\ snapshots = FALSE
    /\ card = NoCard
    /\ chart = None

----------------------------------------------------------------------------
(* The handlers of App *)

\* handleScreen up to its await: the four setters, then screenStocks(...)
\* is called and its promise is pending.
HandleScreenCall ==
    /\ state' = "screening"
    /\ error' = None
    /\ filteredStocks' = <<>>
    /\ analysisResults' = <<>>
    /\ inflight' = Append(inflight, ScreenRequest)
    /\ UNCHANGED <<screenedStocks, aiSelectedStocks, marketEnv, appliedCodes>>

\* handleScreen's success branch also clearing the error.
HandleScreenThenClearsError(data) ==
    /\ screenedStocks' = data
    /\ state' = "screened"
    /\ error' = None
    /\ UNCHANGED <<filteredStocks, analysisResults, aiSelectedStocks, marketEnv,
                   appliedCodes>>

\* handleScreen after its await, the promise fulfilled with `result`.
HandleScreenThen(data) ==
    /\ screenedStocks' = data
    /\ state' = "screened"
    /\ UNCHANGED <<filteredStocks, analysisResults, aiSelectedStocks, marketEnv,
                   error, appliedCodes>>

\* handleScreen's catch block without its setState('idle').
HandleScreenCatchKeepsState(detail) ==
    /\ error' = Some(OrString(detail, ScreenFailedMessage))
    /\ UNCHANGED <<state, screenedStocks, filteredStocks, analysisResults,
                   aiSelectedStocks, marketEnv, appliedCodes>>

\* handleScreen's catch block, the promise rejected with err.
HandleScreenCatch(detail) ==
    /\ error' = Some(OrString(detail, ScreenFailedMessage))
    /\ state' = "idle"
    /\ UNCHANGED <<screenedStocks, filteredStocks, analysisResults,
                   aiSelectedStocks, marketEnv, appliedCodes>>

\* handleFilter without its early return on an empty list.
HandleFilterCallUnguarded ==
    /\ state' = "filtering"
    /\ error' = None
    /\ inflight' = Append(Supersede(inflight), FilterRequest(CodesOf(screenedStocks)))
    /\ UNCHANGED <<screenedStocks, filteredStocks, analysisResults,
                   aiSelectedStocks, marketEnv, appliedCodes>>

\* handleFilter up to its await: the early return on an empty list, else the
\* two setters, codes = screenedStocks.map(s => s.code) and filterStocks(codes).
HandleFilterCall ==
    IF Len(screenedStocks) = 0
    THEN UNCHANGED <<workflow, inflight, appliedCodes>>
    ELSE /\ state' = "filtering"
         /\ error' = None
         /\ inflight' = Append(Supersede(inflight), FilterRequest(CodesOf(screenedStocks)))
         /\ UNCHANGED <<screenedStocks, filteredStocks, analysisResults,
                        aiSelectedStocks, marketEnv, appliedCodes>>

\* handleFilter's success branch storing only the two fields that the declared
\* return type of filterStocks has (data, all_analysis).
HandleFilterThenDeclaredOnly(codes, result) ==
    /\ filteredStocks' = result.data
    /\ analysisResults' = result.all_analysis
    /\ state' = "filtered"
    /\ appliedCodes' = codes
    /\ UNCHANGED <<screenedStocks, error, aiSelectedStocks, marketEnv>>

\* handleFilter after its await, the promise of filterStocks(codes)
\* fulfilled with `result`.
HandleFilterThen(codes, result) ==
    /\ filteredStocks' = result.data
    /\ analysisResults' = result.all_analysis
    /\ aiSelectedStocks' = OrObject(result.ai_selected, <<>>)
    \* result.market_environment || null: undefined becomes null, an object stays
    /\ marketEnv' = IF result.market_environment = None
                    THEN None ELSE result.market_environment
    /\ state' = "filtered"
    /\ appliedCodes' = codes
    /\ UNCHANGED <<screenedStocks, error>>

\* handleFilter's catch block with the fallback message of handleScreen's.
HandleFilterCatchScreenMessage(detail) ==
    /\ error' = Some(OrString(detail, ScreenFailedMessage))
    /\ state' = "screened"
    /\ UNCHANGED <<screenedStocks, filteredStocks, analysisResults,
                   aiSelectedStocks, marketEnv, appliedCodes>>

\* handleFilter's catch block.
HandleFilterCatch(detail) ==
    /\ error' = Some(OrString(detail, FilterFailedMessage))
    /\ state' = "screened"
    /\ UNCHANGED <<screenedStocks, filteredStocks, analysisResults,
                   aiSelectedStocks, marketEnv, appliedCodes>>

\* handleReset clearing what handleScreen clears, and the candidates.
HandleResetKeepsAi ==
    /\ state' = "idle"
    /\ screenedStocks' = <<>>
    /\ filteredStocks' = <<>>
    /\ analysisResults' = <<>>
    /\ error' = None
    /\ UNCHANGED <<aiSelectedStocks, marketEnv, inflight, appliedCodes>>

HandleReset ==
    /\ state' = "idle"
    /\ screenedStocks' = <<>>
    /\ filteredStocks' = <<>>
    /\ analysisResults' = <<>>
    /\ aiSelectedStocks' = <<>>
    /\ marketEnv' = None
    /\ error' = None
    /\ UNCHANGED <<inflight, appliedCodes>>

\* The close button wired to a full reset.
DismissErrorResets ==
    /\ state' = "idle"
    /\ screenedStocks' = <<>>
    /\ filteredStocks' = <<>>
    /\ analysisResults' = <<>>
    /\ aiSelectedStocks' = <<>>
    /\ marketEnv' = None
    /\ error' = None
    /\ UNCHANGED <<inflight, appliedCodes>>

\* The close button's handler, () => setError(null).
DismissError ==
    /\ error' = None
    /\ UNCHANGED <<state, screenedStocks, filteredStocks, analysisResults,
                   aiSelectedStocks, marketEnv, inflight, appliedCodes>>

----------------------------------------------------------------------------
(* What the rendered page lets the user do *)

\* The screen button disabled during its own request only.
ScreenDisabledOwnPhase == state = "screening"

\* disabled={state === 'screening' || state === 'filtering'}
ScreenDisabled == state = "screening" \/ state = "filtering"

\* disabled={screenedStocks.length === 0 || state === 'filtering' || state === 'screening'}
FilterDisabled ==
    Len(screenedStocks) = 0 \/ state = "filtering" \/ state = "screening"

\* The reset button is rendered inside {screenedStocks.length > 0 && ...},
\* under {state !== 'idle' && ...}.
ResetVisible == Len(screenedStocks) > 0 /\ state # "idle"

\* {error && ...}: the banner, with its close button, is rendered for a
\* non-empty error string.
BannerVisible == error # None /\ error # Some("")

\* A click on a disabled button runs no handler.
Ignored(op) ==
    /\ UNCHANGED <<workflow, inflight, appliedCodes>>
    /\ lastEvent' = UserEvent(op)
    /\ UNCHANGED aux

----------------------------------------------------------------------------
(* The page: clicks and the settling of pending requests *)

ClickScreen ==
    \/ /\ ScreenDisabled
       /\ Ignored("clickScreenDisabled")
    \/ /\ ~ScreenDisabled
       /\ Len(inflight) < MaxInflight
       /\ HandleScreenCall
       /\ lastEvent' = UserEvent("handleScreen")
       /\ UNCHANGED aux

ClickFilter ==
    \/ /\ FilterDisabled
       /\ Ignored("clickFilterDisabled")
    \/ /\ ~FilterDisabled
       /\ Len(inflight) < MaxInflight
       /\ HandleFilterCall
       /\ lastEvent' = UserEvent("handleFilter")
       /\ UNCHANGED aux

ClickReset ==
    /\ ResetVisible
    /\ HandleReset
    /\ lastEvent' = UserEvent("handleReset")
    /\ UNCHANGED aux

ClickDismiss ==
    /\ BannerVisible
    /\ DismissError
    /\ lastEvent' = UserEvent("dismissError")
    /\ UNCHANGED aux

ScreenResolved ==
    \E i \in 1..Len(inflight) : \E data \in ScreenResults :
        /\ inflight[i].kind = "screen"
        /\ HandleScreenThen(data)
        /\ inflight' = RemoveAt(inflight, i)
        /\ lastEvent' = Event("screenResolved", inflight[i], data, NoResult, None)
        /\ UNCHANGED aux

ScreenRejected ==
    \E i \in 1..Len(inflight) : \E detail \in Details :
        /\ inflight[i].kind = "screen"
        /\ HandleScreenCatch(detail)
        /\ inflight' = RemoveAt(inflight, i)
        /\ lastEvent' = Event("screenRejected", inflight[i], <<>>, NoResult, detail)
        /\ UNCHANGED aux

FilterResolved ==
    \E i \in 1..Len(inflight) :
        /\ inflight[i].kind = "filter"
        /\ \E result \in FilterResults(inflight[i].codes) :
              /\ HandleFilterThen(inflight[i].codes, result)
              /\ inflight' = RemoveAt(inflight, i)
              /\ lastEvent' = Event("filterResolved", inflight[i], <<>>, result, None)
              /\ UNCHANGED aux

FilterRejected ==
    \E i \in 1..Len(inflight) : \E detail \in Details :
        /\ inflight[i].kind = "filter"
        /\ HandleFilterCatch(detail)
        /\ inflight' = RemoveAt(inflight, i)
        /\ lastEvent' = Event("filterRejected", inflight[i], <<>>, NoResult, detail)
        /\ UNCHANGED aux

Next ==
    \/ ClickScreen
    \/ ClickFilter
    \/ ClickReset
    \/ ClickDismiss
    \/ ScreenResolved
    \/ ScreenRejected
    \/ FilterResolved
    \/ FilterRejected

Spec == Init /\ [][Next]_vars

\* The page, each pending filter request recording what was held at its call.
InitTracked ==
    /\ InitWorkflow
    /\ snapshots = TRUE
    /\ card = NoCard
    /\ chart = None

SpecTracked == InitTracked /\ [][Next]_vars

\* Every pending request settles: the service answers, or axios rejects the
\* promise once its timeout of 60000 ms has passed.
RequestsSettle ==
    /\ WF_vars(ScreenResolved \/ ScreenRejected)
    /\ WF_vars(FilterResolved \/ FilterRejected)

\* The page, with every pending request settling eventually.
SpecFair == Init /\ [][Next]_vars /\ RequestsSettle

----------------------------------------------------------------------------
(* The handlers called directly, whatever the page renders *)

CallScreen ==
    /\ Len(inflight) < MaxInflight
    /\ HandleScreenCall
    /\ lastEvent' = UserEvent("handleScreen")
    /\ UNCHANGED aux

CallFilter ==
    /\ Len(screenedStocks) = 0 \/ Len(inflight) < MaxInflight
    /\ HandleFilterCall
    /\ lastEvent' = UserEvent("handleFilter")
    /\ UNCHANGED aux

CallReset ==
    /\ HandleReset
    /\ lastEvent' = UserEvent("handleReset")
    /\ UNCHANGED aux

CallDismiss ==
    /\ DismissError
    /\ lastEvent' = UserEvent("dismissError")
    /\ UNCHANGED aux

NextHandlers ==
    \/ CallScreen
    \/ CallFilter
    \/ CallReset
    \/ CallDismiss
    \/ ScreenResolved
    \/ ScreenRejected
    \/ FilterResolved
    \/ FilterRejected

SpecHandlers == Init /\ [][NextHandlers]_vars

----------------------------------------------------------------------------
(* JavaScript numbers: n / d for d > 0, NaN as 0 / 0, +Infinity and          *)
(* -Infinity as 1 / 0 and -1 / 0. Rounding is not modelled.                  *)

Number(k) == [n |-> k, d |-> 1]
NaN == [n |-> 0, d |-> 0]
Infinity(sign) == [n |-> sign, d |-> 0]

IsNaN(a) == a.d = 0 /\ a.n = 0
IsFinite(a) == a.d > 0
IsZero(a) == a.d > 0 /\ a.n = 0

Sign(k) == IF k > 0 THEN 1 ELSE IF k < 0 THEN -1 ELSE 0
Abs(k) == IF k < 0 THEN -k ELSE k

\* a / b
Divide(a, b) ==
    IF IsNaN(a) \/ IsNaN(b) THEN NaN
    ELSE IF ~IsFinite(a)
         THEN IF ~IsFinite(b) THEN NaN
              ELSE Infinity(a.n * (IF b.n < 0 THEN -1 ELSE 1))
    ELSE IF ~IsFinite(b) THEN Number(0)
    ELSE IF b.n = 0
         THEN IF a.n = 0 THEN NaN ELSE Infinity(Sign(a.n))
    ELSE [n |-> a.n * b.d * Sign(b.n), d |-> a.d * Abs(b.n)]

\* a * b
Times(a, b) ==
    IF IsNaN(a) \/ IsNaN(b) THEN NaN
    ELSE IF ~IsFinite(a) \/ ~IsFinite(b)
         THEN IF IsZero(a) \/ IsZero(b) THEN NaN
              ELSE Infinity(Sign(a.n) * Sign(b.n))
    ELSE [n |-> a.n * b.n, d |-> a.d * b.d]

\* a - b
Minus(a, b) ==
    IF IsNaN(a) \/ IsNaN(b) THEN NaN
    ELSE IF ~IsFinite(a)
         THEN IF ~IsFinite(b) /\ a.n = b.n THEN NaN ELSE a
    ELSE IF ~IsFinite(b) THEN Infinity(-b.n)
    ELSE [n |-> a.n * b.d - b.n * a.d, d |-> a.d * b.d]

\* a > 0 and a >= 0
IsPositive(a) == ~IsNaN(a) /\ a.n > 0
IsNonNegative(a) == ~IsNaN(a) /\ a.n >= 0

\* a || b for a number a: 0 and NaN are falsy.
OrNumber(a, b) == IF IsNaN(a) \/ IsZero(a) THEN b ELSE a

\* Math.min(...xs) and Math.max(...xs) of integers xs: Infinity and -Infinity
\* for no argument.
MathMin(xs) ==
    IF Len(xs) = 0 THEN Infinity(1)
    ELSE Number(CHOOSE m \in Range(xs) : \A x \in Range(xs) : m <= x)

MathMax(xs) ==
    IF Len(xs) = 0 THEN Infinity(-1)
    ELSE Number(CHOOSE m \in Range(xs) : \A x \in Range(xs) : m >= x)

----------------------------------------------------------------------------
(* The volume chart of a card *)

MinuteVolumeItem(p, v) == [price |-> p, volume |-> v]

Items == {MinuteVolumeItem(p, v) : p \in 1..MaxPrice, v \in 0..MaxVolume}

SeriesOfLength(k) == [1..k -> Items]

\* The cards rendered: minute_volume absent, or a series of 0..MaxSeries samples.
Cards ==
    {[code |-> 1, minute_volume |-> None]}
        \cup {[code |-> 1, minute_volume |-> Some(mv)] :
                mv \in UNION {SeriesOfLength(k) : k \in 0..MaxSeries}}

\* prices = stock.minute_volume.map(m => m.price)
Prices(mv) == [i \in 1..Len(mv) |-> mv[i].price]
Volumes(mv) == [i \in 1..Len(mv) |-> mv[i].volume]

\* The price change computed as first price minus last price.
PriceChangeReversed(mv) == Minus(Number(mv[1].price), Number(mv[Len(mv)].price))

\* priceChange = lastPrice - firstPrice
PriceChange(mv) == Minus(Number(mv[Len(mv)].price), Number(mv[1].price))

\* `price-change ${priceChange >= 0 ? 'up' : 'down'}`
ChangeClass(priceChange) == IF IsNonNegative(priceChange) THEN "up" ELSE "down"

\* priceRange = maxPrice - minPrice || 1
PriceRange(mv) == OrNumber(Minus(MathMax(Prices(mv)), MathMin(Prices(mv))), Number(1))

\* The polyline point of the sample at (0-based) idx.
PricePoint(mv, idx) ==
    [x |-> Times(Divide(Number(idx), Number(Len(mv) - 1)), Number(100)),
     y |-> Minus(Number(100),
                 Times(Divide(Minus(Number(mv[idx + 1].price), MathMin(Prices(mv))),
                              PriceRange(mv)),
                       Number(100)))]

PricePoints(mv) == [i \in 1..Len(mv) |-> PricePoint(mv, i - 1)]

\* The bar height without the test of maxVolume.
BarHeightUnguarded(volume, maxVolume) ==
    Times(Divide(Number(volume), maxVolume), Number(100))

\* height: `${maxVolume > 0 ? (m.volume / maxVolume) * 100 : 0}%`
BarHeight(volume, maxVolume) ==
    IF IsPositive(maxVolume)
    THEN Times(Divide(Number(volume), maxVolume), Number(100))
    ELSE Number(0)

VolumeBars(mv) ==
    [i \in 1..Len(mv) |-> BarHeight(mv[i].volume, MathMax(Volumes(mv)))]

\* Nothing is computed for a card without a chart.
NoChart ==
    [shown |-> FALSE, minPrice |-> NaN, maxPrice |-> NaN, priceChange |-> NaN,
     changeClass |-> "", points |-> <<>>, bars |-> <<>>]

\* The chart block guarded by the presence of minute_volume alone: for an
\* empty series Math.min() is Infinity, Math.max() is -Infinity and
\* undefined.price - undefined.price is not a number.
VolumeChartPresentOnly(stock) ==
    IF stock.minute_volume # None
    THEN LET mv == stock.minute_volume[1]
         IN  [shown       |-> TRUE,
              minPrice    |-> MathMin(Prices(mv)),
              maxPrice    |-> MathMax(Prices(mv)),
              priceChange |-> IF Len(mv) = 0 THEN NaN ELSE PriceChange(mv),
              changeClass |-> IF Len(mv) = 0 THEN "down"
                              ELSE ChangeClass(PriceChange(mv)),
              points      |-> PricePoints(mv),
              bars        |-> VolumeBars(mv)]
    ELSE NoChart

\* {stock.minute_volume && stock.minute_volume.length > 0 && (...)}
VolumeChart(stock) ==
    IF stock.minute_volume # None /\ Len(stock.minute_volume[1]) > 0
    THEN LET mv == stock.minute_volume[1]
         IN  [shown       |-> TRUE,
              minPrice    |-> MathMin(Prices(mv)),
              maxPrice    |-> MathMax(Prices(mv)),
              priceChange |-> PriceChange(mv),
              changeClass |-> ChangeClass(PriceChange(mv)),
              points      |-> PricePoints(mv),
              bars        |-> VolumeBars(mv)]
    ELSE NoChart

InitChart ==
    /\ InitWorkflow
    /\ snapshots = FALSE
    /\ card \in Cards
    /\ chart = None

\* The card of `card` is rendered.
RenderCard ==
    /\ chart = None
    /\ chart' = Some(VolumeChart(card))
    /\ UNCHANGED <<workflow, inflight, appliedCodes, lastEvent, snapshots, card>>

NextChart == RenderCard

SpecChart == InitChart /\ [][NextChart]_vars

----------------------------------------------------------------------------
(* Claims *)

ResolvedAi(result) == OrObject(result.ai_selected, <<>>)

\* Some deep-filter result is held.
HoldsFilterResults ==
    \/ filteredStocks # <<>>
    \/ analysisResults # <<>>
    \/ aiSelectedStocks # <<>>
    \/ marketEnv # None

\* C1: after the success branch of handleScreen has run, the state is
\* 'screened', screenedStocks is the response's data, and the refined list, the
\* verdict list, the AI-ranked list and the market environment are empty / null.
C1_ScreenSuccessClearsResults ==
    lastEvent.op = "screenResolved" =>
        /\ state = "screened"
        /\ screenedStocks = lastEvent.data
        /\ filteredStocks = <<>>
        /\ analysisResults = <<>>
        /\ aiSelectedStocks = <<>>
        /\ marketEnv = None

\* C2: after the catch block of handleScreen has run, the state is 'idle', the
\* error is a non-empty string and screenedStocks is empty.
C2_ScreenFailureKeepsNoCandidates ==
    lastEvent.op = "screenRejected" =>
        /\ state = "idle"
        /\ error # None
        /\ error # Some("")
        /\ screenedStocks = <<>>

\* C3: the settling (success or failure) of a filter request that a later
\* filter request has superseded changes no workflow field.
C3_SupersededFilterResponseIgnored ==
    [][(/\ lastEvent'.op \in {"filterResolved", "filterRejected"}
        /\ lastEvent'.req.superseded)
       => UNCHANGED workflow]_vars

\* C4: whenever a deep-filter result is held, the held results were stored by
\* a successful filter request whose codes are the codes of the candidates
\* held now.
C4_ResultsScopedToCandidates ==
    HoldsFilterResults => appliedCodes = CodesOf(screenedStocks)

\* C5: right after handleScreen is accepted the state is 'screening', the
\* refined list, the verdict list and the AI-ranked list are empty, the market
\* environment is null and the error is null.
C5_ScreenStartClearsResults ==
    lastEvent.op = "handleScreen" =>
        /\ state = "screening"
        /\ filteredStocks = <<>>
        /\ analysisResults = <<>>
        /\ aiSelectedStocks = <<>>
        /\ marketEnv = None
        /\ error = None

\* C6: a filter request is issued only from 'screened' or 'filtered', with a
\* non-empty candidate list.
C6_FilterIssuedOnlyFromScreenedOrFiltered ==
    [][(/\ lastEvent'.op = "handleFilter"
        /\ Len(inflight') > Len(inflight))
       => /\ state \in {"screened", "filtered"}
          /\ Len(screenedStocks) > 0]_vars

\* C7: while the state is 'screening' or 'filtering', a click on the screen
\* button issues no request and changes no workflow field.
C7_ScreenIgnoredWhileInFlight ==
    [][(/\ state \in {"screening", "filtering"}
        /\ lastEvent'.op \in {"clickScreenDisabled", "handleScreen"})
       => UNCHANGED <<workflow, inflight>>]_vars

C7_Witness ==
    /\ lastEvent.op = "clickScreenDisabled"
    /\ state = "filtering"
    /\ Len(inflight) > 0

\* C8: handleFilter called while screenedStocks is empty issues no request and
\* changes no workflow field.
C8_FilterNoOpOnEmptyCandidates ==
    [][(/\ lastEvent'.op = "handleFilter"
        /\ Len(screenedStocks) = 0)
       => UNCHANGED <<workflow, inflight>>]_vars

C8_Witness ==
    /\ lastEvent.op = "handleFilter"
    /\ Len(screenedStocks) = 0
    /\ state = "screened"
    /\ inflight = <<>>

\* C9: the success branch of handleFilter leaves the state 'filtered', the
\* refined list equal to the response's data, the verdict list equal to its
\* all_analysis, the AI-ranked list equal to its ai_selected (empty when
\* absent), the market environment equal to its market_environment (null when
\* absent), and screenedStocks as it was.
C9_FilterSuccessStoresResponse ==
    [][lastEvent'.op = "filterResolved"
       => /\ state' = "filtered"
          /\ filteredStocks' = lastEvent'.result.data
          /\ analysisResults' = lastEvent'.result.all_analysis
          /\ aiSelectedStocks' = ResolvedAi(lastEvent'.result)
          /\ marketEnv' = lastEvent'.result.market_environment
          /\ screenedStocks' = screenedStocks]_vars

C9_Witness ==
    /\ lastEvent.op = "filterResolved"
    /\ state = "filtered"
    /\ Len(screenedStocks) = 2
    /\ Len(filteredStocks) = 1
    /\ Len(analysisResults) = 2
    /\ Len(aiSelectedStocks) = 1
    /\ marketEnv = Some(MarketEnvironment)

\* C10: after a filter request is fulfilled, either its verdict list has one
\* verdict per submitted code, and then the state is 'filtered', as many
\* verdicts are held as codes were submitted and every held refined stock has a
\* held verdict with qualified = true; or it has not, and then an error is
\* recorded and the state is 'screened'.
C10_VerdictsCoverSubmittedCodes ==
    lastEvent.op = "filterResolved" =>
        IF Len(lastEvent.result.all_analysis) = Len(lastEvent.req.codes)
        THEN /\ state = "filtered"
             /\ Len(analysisResults) = Len(lastEvent.req.codes)
             /\ \A i \in 1..Len(filteredStocks) :
                    \E j \in 1..Len(analysisResults) :
                        /\ analysisResults[j].code = filteredStocks[i].code
                        /\ analysisResults[j].qualified
        ELSE /\ state = "screened"
             /\ error # None

\* C11: after the catch block of handleFilter has run for the latest filter
\* request, the error is recorded, the state is 'screened', and the candidates,
\* the refined list, the verdict list, the AI-ranked list and the market
\* environment are what they were when handleFilter was called.
C11_FilterFailureRestoresCallState ==
    (lastEvent.op = "filterRejected" /\ ~lastEvent.req.superseded) =>
        /\ error # None
        /\ state = "screened"
        /\ Held = lastEvent.req.before

\* C12: right after handleReset the state is 'idle', the candidates, the
\* refined list, the verdict list and the AI-ranked list are empty, and the
\* market environment and the error are null.
C12_ResetClearsEverything ==
    lastEvent.op = "handleReset" =>
        /\ state = "idle"
        /\ screenedStocks = <<>>
        /\ filteredStocks = <<>>
        /\ analysisResults = <<>>
        /\ aiSelectedStocks = <<>>
        /\ marketEnv = None
        /\ error = None

\* A reset while a request was pending, after a filter had stored results.
C12_Witness ==
    /\ lastEvent.op = "handleReset"
    /\ state = "idle"
    /\ Len(inflight) > 0
    /\ appliedCodes # <<>>

\* C13: dismissError sets the error to null and changes neither the state nor
\* any result collection, in whatever state it is called.
C13_DismissOnlyClearsError ==
    [][lastEvent'.op = "dismissError"
       => /\ error' = None
          /\ UNCHANGED <<state, screenedStocks, filteredStocks, analysisResults,
                         aiSelectedStocks, marketEnv>>]_vars

C13_Witness ==
    /\ lastEvent.op = "dismissError"
    /\ state = "filtering"
    /\ HoldsFilterResults
    /\ error = None

\* C14: after the success branch of handleScreen has run with an empty result,
\* the state is 'screened', the error is null and the candidates are empty.
C14_EmptyScreenIsSuccess ==
    (lastEvent.op = "screenResolved" /\ lastEvent.data = <<>>) =>
        /\ state = "screened"
        /\ error = None
        /\ screenedStocks = <<>>

\* A failure carries a detail when err.response.data.detail is a non-empty string.
CarriesDetail(detail) == detail # None /\ detail # Some("")

\* C15: after a failed screen or filter request the error is the failure's
\* detail when it carries one, and otherwise the fallback message of the phase
\* that failed; it is never null.
C15_ErrorIsDetailOrPhaseMessage ==
    /\ lastEvent.op = "screenRejected" =>
          /\ error # None
          /\ CarriesDetail(lastEvent.detail) => error = lastEvent.detail
          /\ ~CarriesDetail(lastEvent.detail) => error = Some(ScreenFailedMessage)
    /\ lastEvent.op = "filterRejected" =>
          /\ error # None
          /\ CarriesDetail(lastEvent.detail) => error = lastEvent.detail
          /\ ~CarriesDetail(lastEvent.detail) => error = Some(FilterFailedMessage)

C15_Witness ==
    /\ lastEvent.op = "filterRejected"
    /\ lastEvent.detail = Some("")
    /\ error = Some(FilterFailedMessage)

\* C16 as stated: a held error changes only by dismissError, reset, an
\* accepted handleScreen, or a failure.
C16_ErrorChangesOnlyByClearOrFailure ==
    [][(error # None /\ error' # error)
       => lastEvent'.op \in {"dismissError", "handleReset", "handleScreen",
                             "screenRejected", "filterRejected"}]_vars

\* C16 amended: a held error changes only by dismissError, reset, an accepted
\* handleScreen, an accepted handleFilter, or a failure; a successful response
\* and a click on a disabled button leave it.
C16_ErrorChangesOnlyByClearStartOrFailure ==
    [][(error # None /\ error' # error)
       => lastEvent'.op \in {"dismissError", "handleReset", "handleScreen",
                             "handleFilter", "screenRejected", "filterRejected"}]_vars

\* An error still held after a successful response.
C16_Witness ==
    /\ lastEvent.op = "screenResolved"
    /\ error # None

\* The chart drawn for the rendered card, and its series.
Drawn == chart # None /\ chart[1].shown
Series == card.minute_volume[1]

\* a = p / q, and a in [lo, hi], for integers p, q, lo, hi with q > 0.
EqualsRatio(a, p, q) == IsFinite(a) /\ a.n * q = p * a.d
Within(a, lo, hi) == IsFinite(a) /\ lo * a.d <= a.n /\ a.n <= hi * a.d

LeastPrice == CHOOSE m \in Range(Prices(Series)) : \A x \in Range(Prices(Series)) : m <= x
MostPrice == CHOOSE m \in Range(Prices(Series)) : \A x \in Range(Prices(Series)) : m >= x
MostVolume == CHOOSE m \in Range(Volumes(Series)) : \A x \in Range(Volumes(Series)) : m >= x
EffectiveRange == IF MostPrice = LeastPrice THEN 1 ELSE MostPrice - LeastPrice

\* C17: in a drawn chart of n samples, the point of sample i (from 0) has
\* x * (n - 1) = 100 * i and y = 100 - (price_i - min) / effectiveRange * 100,
\* every x and y lies in [0, 100], a maximum-price sample has y = 0, and with
\* all prices equal every y is 100.
C17_PolylineFormula ==
    Drawn =>
        /\ Len(chart[1].points) = Len(Series)
        /\ \A i \in 1..Len(Series) :
              LET pt == chart[1].points[i]
                  p  == Series[i].price
              IN  /\ IsFinite(pt.x)
                  /\ pt.x.n * (Len(Series) - 1) = 100 * (i - 1) * pt.x.d
                  /\ EqualsRatio(pt.y, 100 * EffectiveRange - 100 * (p - LeastPrice),
                                 EffectiveRange)
                  /\ Within(pt.x, 0, 100)
                  /\ Within(pt.y, 0, 100)
                  /\ p = MostPrice /\ MostPrice # LeastPrice => EqualsRatio(pt.y, 0, 1)
                  /\ MostPrice = LeastPrice => EqualsRatio(pt.y, 100, 1)

\* C18: the chart of a one-sample series has one point, whose x is 0.
C18_SingleSampleAtZero ==
    (Drawn /\ Len(Series) = 1) =>
        /\ Len(chart[1].points) = 1
        /\ EqualsRatio(chart[1].points[1].x, 0, 1)

\* C19: in a drawn chart every bar height is 100 * volume / maximum volume
\* percent, lies in [0, 100], is 100 for a sample of the maximum volume, and
\* is 0 for every sample when the maximum volume is 0.
C19_VolumeBars ==
    Drawn =>
        /\ Len(chart[1].bars) = Len(Series)
        /\ \A i \in 1..Len(Series) :
              LET bar == chart[1].bars[i]
                  v   == Series[i].volume
              IN  /\ Within(bar, 0, 100)
                  /\ MostVolume > 0 => EqualsRatio(bar, 100 * v, MostVolume)
                  /\ (MostVolume > 0 /\ v = MostVolume) => EqualsRatio(bar, 100, 1)
                  /\ MostVolume = 0 => EqualsRatio(bar, 0, 1)

\* A chart with a full bar, a bar between empty and full, and an empty bar.
C19_Witness ==
    /\ Drawn
    /\ \E i \in 1..Len(Series) : EqualsRatio(chart[1].bars[i], 100, 1)
    /\ \E i \in 1..Len(Series) : EqualsRatio(chart[1].bars[i], 50, 1)
    /\ \E i \in 1..Len(Series) : EqualsRatio(chart[1].bars[i], 0, 1)

\* C20: in a drawn chart the price change is the last sample's price minus
\* the first sample's price, and the class is 'up' exactly when it is >= 0 and
\* 'down' exactly when it is < 0.
C20_NetPriceChange ==
    Drawn =>
        LET change == Series[Len(Series)].price - Series[1].price
        IN  /\ EqualsRatio(chart[1].priceChange, change, 1)
            /\ chart[1].changeClass = "up" <=> change >= 0
            /\ chart[1].changeClass = "down" <=> change < 0

\* A falling series of three samples whose middle sample is the lowest.
C20_Witness ==
    /\ Drawn
    /\ Len(Series) = 3
    /\ Series[2].price < Series[3].price
    /\ Series[3].price < Series[1].price
    /\ chart[1].changeClass = "down"

\* The events that settle a pending request.
Arrivals == {"screenResolved", "screenRejected", "filterResolved", "filterRejected"}

\* C21: while the state is 'screening' or 'filtering', a step that changes the
\* state, the error or a result collection is the arrival of a response: no
\* click (reset and dismissError in particular) changes a workflow field.
C21_NoUserChangeWhileInFlight ==
    [][(/\ state \in {"screening", "filtering"}
        /\ workflow' # workflow)
       => lastEvent'.op \in Arrivals]_vars

\* The request issued by the step, when the step issues one.
Issued == inflight'[Len(inflight')]

\* C22: the request that an accepted handleFilter issues carries, as its codes
\* parameter, the codes of the candidates held at the call: every one of them,
\* in the candidates' order, comma-separated, and at least one.
C22_FilterRequestCarriesCandidateCodes ==
    [][(/\ lastEvent'.op = "handleFilter"
        /\ Len(inflight') > Len(inflight))
       => /\ Issued.kind = "filter"
          /\ Len(screenedStocks) > 0
          /\ Len(Issued.query) = 2 * Len(screenedStocks) - 1
          /\ \A i \in 1..Len(screenedStocks) :
                Issued.query[2 * i - 1] = screenedStocks[i].code
          /\ \A i \in 1..(Len(screenedStocks) - 1) :
                Issued.query[2 * i] = Comma]_vars

\* A filter request for two candidates is pending, issued by the last click.
C22_Witness ==
    /\ lastEvent.op = "handleFilter"
    /\ state = "filtering"
    /\ Len(screenedStocks) = 2
    /\ Len(inflight) > 0
    /\ inflight[Len(inflight)].query = <<1, Comma, 2>>

\* C23: for a rendered card whose minute_volume is absent or empty no chart
\* is drawn and no chart geometry is computed: no price minimum or maximum,
\* no net change, no polyline point and no volume bar.
C23_NoChartWithoutSamples ==
    (chart # None /\ (card.minute_volume = None \/ Len(card.minute_volume[1]) = 0))
        => /\ ~chart[1].shown
           /\ chart[1] = NoChart
           /\ chart[1].points = <<>>
           /\ chart[1].bars = <<>>

\* The card of a stock with an empty minute_volume has been rendered.
C23_Witness ==
    /\ chart # None
    /\ card.minute_volume = Some(<<>>)

\* C24: at most one request (screen or filter) is pending at any time.
C24_AtMostOneOutstanding == Len(inflight) <= 1

\* C25: when the step after handleReset is the arrival of a response (of a
\* request issued before the reset, as every pending one then is), the step
\* changes no workflow field: the state stays 'idle', the error null and every
\* collection empty.
C25_ResetSilencesPendingRequests ==
    [][(/\ lastEvent.op = "handleReset"
        /\ lastEvent'.op \in Arrivals)
       => /\ UNCHANGED workflow
          /\ state' = "idle"
          /\ error' = None
          /\ ~HoldsFilterResults'
          /\ screenedStocks' = <<>>]_vars

\* C26: when every pending request settles eventually, 'screening' always
\* leads to 'screened' or 'idle' and 'filtering' always leads to 'filtered' or
\* 'screened', whatever the user clicks in between.
C26_InFlightStatesAreLeft ==
    /\ (state = "screening") ~> (state \in {"screened", "idle"})
    /\ (state = "filtering") ~> (state \in {"filtered", "screened"})

\* A filter request issued before a reset has brought the page to 'filtered'.
C26_Witness ==
    /\ lastEvent.op = "filterResolved"
    /\ state = "filtered"
    /\ screenedStocks = <<>>
    /\ inflight = <<>>

====
